---- MODULE Spec2Model ----
(***************************************************************************)
(* neovox: the zustand voxel store (src/src/VoxelStore.js), the instance   *)
(* projection, the per-frame raycast interaction and the pointer handler   *)
(* (src/unnamed/part_000, VoxelEngine and App).                            *)
(*                                                                         *)
(* Lengths are kept in half units: a hit point coordinate h stands for the *)
(* real number h/2, so face centres (integers) and face edges (odd halves) *)
(* are both exact.  Voxel positions and target cells are plain integers.   *)
(***************************************************************************)
EXTENDS Integers, Sequences, FiniteSets, TLC

\* ---------------------------------------------------------------- bounds
MaxVoxels == 2      \* appends stop once the list holds this many voxels
MaxPushes == 1      \* insert pushes in flight at once
MaxNotifs == 1      \* realtime notifications in flight at once
MaxRows   == 2      \* rows the external table holds
MaxKey    == 2      \* palette keys 1..MaxKey are pressed

\* ------------------------------------------------------- JavaScript values
Undefined == "undefined"
Null      == "null"

Falsy(v) == v = Undefined \/ v = Null \/ v = ""

\* --------------------------------------------------------------- constants
COLORS == << "#00ffff", "#ff003c", "#ccff00", "#ff00ff", "#ffff00", "#ffffff" >>

DefaultSelectedColor == "#00ffff"

FallbackColor == "#00d2ff"

MAX_INSTANCES == 100000

\* THREE.Color.set(style) for the '#rrggbb' styles in use: the r,g,b bytes
ColorSet(style) ==
    CASE style = "#00ffff" -> << 0, 255, 255 >>
      [] style = "#ff003c" -> << 255, 0, 60 >>
      [] style = "#ccff00" -> << 204, 255, 0 >>
      [] style = "#ff00ff" -> << 255, 0, 255 >>
      [] style = "#ffff00" -> << 255, 255, 0 >>
      [] style = "#ffffff" -> << 255, 255, 255 >>
      [] style = "#00d2ff" -> << 0, 210, 255 >>

\* identities the external table hands out, in insertion order
RowIds == << "id1", "id2", "id3", "id4", "id5" >>

VARIABLES
    voxels,           \* store: state.voxels
    selectedColor,    \* store: state.selectedColor
    fetch,            \* initializeVoxels: [st, data]
    pushes,           \* addVoxel calls awaiting their insert: set of [voxel, st]
    db,               \* rows of the external 'voxels' table, in insertion order
    notifs,           \* INSERT notifications in flight to this client
    channel,          \* "none" | "subscribed" | "removed"
    log,              \* what reached console.error / was thrown uncaught
    rvoxels,          \* state.voxels as seen by the last React commit
    inst,             \* the instanced mesh: [count, matrix, color]
    hit,              \* intersects[0] of the last frame, or NoHit
    ghost,            \* Interaction state: ghost
    isHoveringVoxel,  \* Interaction state: isHoveringVoxel
    hoveredVoxelId,   \* Interaction state: hoveredVoxelId
    handler           \* what the registered handleMouseDown closes over

vars == << voxels, selectedColor, fetch, pushes, db, notifs, channel, log,
           rvoxels, inst, hit, ghost, isHoveringVoxel, hoveredVoxelId, handler >>

storeVars  == << voxels, selectedColor >>
remoteVars == << fetch, pushes, db, notifs, channel >>
viewVars   == << rvoxels, inst, hit, ghost, isHoveringVoxel, hoveredVoxelId, handler >>

\* ------------------------------------------------------------------ store
\* newVoxel of addVoxel: { x, y, z, color: selectedColor }, no id property
NewVoxel(x, y, z, color) ==
    [x |-> x, y |-> y, z |-> z, color |-> color, id |-> Undefined]

\* as AppendVoxel, with the new voxel put in front
PrependVoxel(vs, nv) == << nv >> \o vs

\* set((state) => ({ voxels: [...state.voxels, newVoxel] }))
AppendVoxel(vs, nv) == Append(vs, nv)

\* as Exists, but telling voxels apart by their id
ExistsById(vs, nv) ==
    \E i \in 1..Len(vs) : vs[i].id = nv.id

\* currentVoxels.some(v => v.x === newVoxel.x && v.y === newVoxel.y && v.z === newVoxel.z)
Exists(vs, nv) ==
    \E i \in 1..Len(vs) : vs[i].x = nv.x /\ vs[i].y = nv.y /\ vs[i].z = nv.z

\* the realtime callback: append unless a voxel with that position is known
OnInsert(vs, nv) == IF ~Exists(vs, nv) THEN AppendVoxel(vs, nv) ELSE vs

\* .select('x, y, z, color'): the fetched tuples carry no id
SelectColumns(row) ==
    [x |-> row.x, y |-> row.y, z |-> row.z, color |-> row.color, id |-> Undefined]

SelectAll(rows) == [i \in 1..Len(rows) |-> SelectColumns(rows[i])]

\* the row the table stores for an inserted voxel: it gets the next identity
StoredRow(v, rows) ==
    [x |-> v.x, y |-> v.y, z |-> v.z, color |-> v.color, id |-> RowIds[Len(rows) + 1]]

\* -------------------------------------------------------------- projection
\* as Translation, with the y and z arguments exchanged
TranslationSwapped(voxel) == << voxel.x, voxel.z, voxel.y >>

\* dummy.position.set(x, y, z); dummy.updateMatrix(): the translation part
Translation(voxel) == << voxel.x, voxel.y, voxel.z >>

\* colorHelper.set(voxel.color || '#00d2ff')
SlotColor(voxel) ==
    ColorSet(IF Falsy(voxel.color) THEN FallbackColor ELSE voxel.color)

\* the slots a buffer of MAX_INSTANCES slots has in use after vs.forEach wrote
\* slot i for voxel i: a write past the end of the typed array is dropped,
\* slots beyond the list keep what they held; slots are numbered from 1 here
SlotsWritten(buf, vs) ==
    LET n == IF Len(vs) > MAX_INSTANCES THEN MAX_INSTANCES ELSE Len(vs)
    IN IF Len(buf) > n THEN Len(buf) ELSE n

\* voxels.forEach((voxel, i) => { setMatrixAt(i, ...); setColorAt(i, ...) })
ForEachVoxel(mesh, vs) ==
    [mesh EXCEPT
       !.matrix = [i \in 1..SlotsWritten(mesh.matrix, vs) |->
                      IF i <= Len(vs) THEN Translation(vs[i]) ELSE mesh.matrix[i]],
       !.color  = [i \in 1..SlotsWritten(mesh.color, vs) |->
                      IF i <= Len(vs) THEN SlotColor(vs[i]) ELSE mesh.color[i]]]

\* the effect of VoxelInstances: count, then every slot in list order
Project(mesh, vs) == ForEachVoxel([mesh EXCEPT !.count = Len(vs)], vs)

\* ------------------------------------------------------------- interaction
NoHit   == [object |-> "none"]
NoGhost == << >>

\* as MathRound, rounding down as Math.floor does
MathFloor(h) == h \div 2

\* Math.round of the half-unit value h, i.e. floor(h/2 + 0.5): ties go up
MathRound(h) == (h + 1) \div 2

\* hit.point.clone().add(hit.face.normal.clone().multiplyScalar(0.5)), rounded
TargetCell(point, normal) ==
    [k \in 1..3 |-> MathRound(point[k] + normal[k])]

\* face normals tried for hits on the voxel batch
Normals == { << 0, 1, 0 >> }

\* where on a face the ray lands: the centre, or half a unit off on both axes
FaceOffsets == { << 0, 0, 0 >>, << 1, 1, 1 >> }

\* the point at offset o on the face with normal n of a unit cube centred at pos
FacePoint(pos, n, o) ==
    [k \in 1..3 |-> 2 * pos[k] + n[k] + (IF n[k] = 0 THEN o[k] ELSE 0)]

\* hits the raycaster can report on the instanced mesh named 'voxels'
VoxelHits(mesh) ==
    { [object |-> "voxels", instanceId |-> i,
       point |-> FacePoint(mesh.matrix[i + 1], n, o), normal |-> n] :
         i \in { j \in 0..(mesh.count - 1) : j < Len(mesh.matrix) },
         n \in Normals, o \in FaceOffsets }

\* points of the plane y = -0.5 the ray is aimed at
GroundPoints == { << 0, -1, 0 >> }

\* hits on the mesh named 'ground': face.normal is the plane's own (0,0,1),
\* and a hit on a plain mesh has no instanceId
GroundHits ==
    { [object |-> "ground", point |-> g, normal |-> << 0, 0, 1 >>] :
         g \in GroundPoints }

Intersections(mesh) == VoxelHits(mesh) \cup GroundHits \cup { NoHit }

\* const targetVoxel = voxels[hit.instanceId]; setHoveredVoxelId(targetVoxel.id)
HoveredAfter(h, vs, old) ==
    IF h.object = "none" THEN old
    ELSE IF h.object = "voxels"
         THEN IF "instanceId" \in DOMAIN h /\ h.instanceId + 1 <= Len(vs)
              THEN vs[h.instanceId + 1].id
              ELSE old
         ELSE Null

\* ----------------------------------------------------------------- remote
\* cells the store's addVoxel is called with
Cells == { << 0, 0, 1 >>, << 2, 3, -1 >> }

\* what other actors insert into the table
RemotePayloads ==
    { NewVoxel(2, 2, -1, "#ff003c"), NewVoxel(0, 0, 1, Null) }

\* what the table may hold before the session starts
InitialTables == { << >>, << [NewVoxel(0, 0, 1, "#ccff00") EXCEPT !.id = RowIds[1]] >> }

\* payload.new of the notifications the callback is handed
RemoteRows ==
    { [NewVoxel(2, 2, -1, Null) EXCEPT !.id = RowIds[1]] }

\* as Dispatch, with a callback that outlives the channel
DispatchAlways(ch, vs, nv) == OnInsert(vs, nv)

\* the channel hands a notification to the callback only while subscribed
Dispatch(ch, vs, nv) == IF ch = "subscribed" THEN OnInsert(vs, nv) ELSE vs

\* ------------------------------------------------------------------- Init
\* the created store, nothing mounted yet
Init ==
    /\ voxels = << >>
    /\ selectedColor = DefaultSelectedColor
    /\ fetch = [st |-> "idle", data |-> << >>]
    /\ pushes = << >>
    /\ db \in InitialTables
    /\ notifs = {}
    /\ channel = "none"
    /\ log = {}
    /\ rvoxels = << >>
    /\ inst = [count |-> 0, matrix |-> << >>, color |-> << >>]
    /\ hit = NoHit
    /\ ghost = NoGhost
    /\ isHoveringVoxel = FALSE
    /\ hoveredVoxelId = Null
    /\ handler = [ghost |-> NoGhost, isHoveringVoxel |-> FALSE, hoveredVoxelId |-> Null]

\* ---------------------------------------------------------------- actions
\* App's mount effect: initializeVoxels(); const unsubscribe = subscribeToVoxels()
Mount ==
    /\ fetch.st = "idle"
    /\ channel = "none"
    /\ fetch' = [fetch EXCEPT !.st = "pending"]
    /\ channel' = "subscribed"
    /\ UNCHANGED << storeVars, pushes, db, notifs, log, viewVars >>

\* the table answers the bulk select with its rows of that moment
FetchRead ==
    /\ fetch.st = "pending"
    /\ fetch' = [st |-> "read", data |-> SelectAll(db)]
    /\ UNCHANGED << storeVars, pushes, db, notifs, channel, log, viewVars >>

\* initializeVoxels resumes with data: set({ voxels: data || [] })
FetchComplete ==
    /\ fetch.st = "read"
    /\ voxels' = fetch.data
    /\ fetch' = [st |-> "done", data |-> << >>]
    /\ UNCHANGED << selectedColor, pushes, db, notifs, channel, log, viewVars >>

\* as FetchError, with the list reset on the error path
FetchErrorResets ==
    /\ fetch.st = "pending"
    /\ fetch' = [st |-> "failed", data |-> << >>]
    /\ log' = log \cup { "Error fetching voxels:" }
    /\ voxels' = << >>
    /\ UNCHANGED << selectedColor, pushes, db, notifs, channel, viewVars >>

\* initializeVoxels resumes with error: console.error, return
FetchError ==
    /\ fetch.st = "pending"
    /\ fetch' = [st |-> "failed", data |-> << >>]
    /\ log' = log \cup { "Error fetching voxels:" }
    /\ UNCHANGED << storeVars, pushes, db, notifs, channel, viewVars >>

SetSelectedColor(color) ==
    /\ selectedColor' = color
    /\ UNCHANGED << voxels, remoteVars, log, viewVars >>

\* addVoxel up to its await: the optimistic append and the insert it sends
AddVoxel(st, x, y, z) ==
    LET newVoxel == NewVoxel(x, y, z, st.selectedColor)
    IN [st EXCEPT !.voxels = AppendVoxel(@, newVoxel),
                  !.pushes = Append(@, [voxel |-> newVoxel, st |-> "sent"])]

\* removeVoxel is state.removeVoxel, which the store does not define:
\* calling it throws a TypeError out of the handler
RemoveVoxel(st, id) ==
    [st EXCEPT !.log = @ \cup { "TypeError: removeVoxel is not a function" }]

\* handleMouseDown(e) of the closure h, on the store and console state st
HandleMouseDown(h, e, st) ==
    IF h.ghost = NoGhost THEN st
    ELSE IF e.button = 0 /\ ~e.altKey
         THEN AddVoxel(st, h.ghost[1], h.ghost[2], h.ghost[3])
         ELSE IF e.button = 0 /\ e.altKey /\ h.isHoveringVoxel
                 /\ ~Falsy(h.hoveredVoxelId)
              THEN RemoveVoxel(st, h.hoveredVoxelId)
              ELSE st

\* what a handler reads and writes of the store, the pushes and the console
Current ==
    [voxels |-> voxels, pushes |-> pushes, log |-> log, selectedColor |-> selectedColor]

\* a handler's result is taken over; lists stay within the bounds
Becomes(st) ==
    /\ Len(st.voxels) <= MaxVoxels \/ st.voxels = voxels
    /\ Len(st.pushes) <= MaxPushes
    /\ voxels' = st.voxels
    /\ pushes' = st.pushes
    /\ log' = st.log
    /\ selectedColor' = st.selectedColor

\* a caller of the store invokes addVoxel(x, y, z)
AddVoxelCall(c) ==
    /\ Becomes(AddVoxel(Current, c[1], c[2], c[3]))
    /\ UNCHANGED << fetch, db, notifs, channel, viewVars >>

\* a pointer press reaches the handler the last commit registered
MouseDown(button, altKey) ==
    /\ Becomes(HandleMouseDown(handler, [button |-> button, altKey |-> altKey], Current))
    /\ UNCHANGED << fetch, db, notifs, channel, viewVars >>

\* the table accepts the pushed voxel and notifies the subscribers
StoreInsert(i) ==
    /\ pushes[i].st = "sent"
    /\ Len(db) < MaxRows
    /\ LET row == StoredRow(pushes[i].voxel, db)
       IN /\ channel = "subscribed" =>
                (row \in notifs \/ Cardinality(notifs) < MaxNotifs)
          /\ db' = Append(db, row)
          /\ notifs' = IF channel = "subscribed" THEN notifs \cup { row } ELSE notifs
    /\ pushes' = [pushes EXCEPT ![i].st = "stored"]
    /\ UNCHANGED << storeVars, fetch, channel, log, viewVars >>

\* the table or the transport rejects the pushed voxel
StoreReject(i) ==
    /\ pushes[i].st = "sent"
    /\ pushes' = [pushes EXCEPT ![i].st = "failed"]
    /\ UNCHANGED << storeVars, fetch, db, notifs, channel, log, viewVars >>

RemoveAt(s, i) == [j \in 1..(Len(s) - 1) |-> IF j < i THEN s[j] ELSE s[j + 1]]

\* as Resume, with the optimistic voxel taken back on an error
ResumeRollsBack(i, error) ==
    /\ log' = IF error THEN log \cup { "Error saving voxel:" } ELSE log
    /\ pushes' = RemoveAt(pushes, i)
    /\ voxels' = IF error
                 THEN SelectSeq(voxels, LAMBDA v : v # pushes[i].voxel)
                 ELSE voxels
    /\ UNCHANGED << selectedColor, fetch, db, notifs, channel, viewVars >>

\* addVoxel after its await: if (error) console.error(...); nothing else
Resume(i, error) ==
    /\ log' = IF error THEN log \cup { "Error saving voxel:" } ELSE log
    /\ pushes' = RemoveAt(pushes, i)
    /\ UNCHANGED << storeVars, fetch, db, notifs, channel, viewVars >>

\* the answer of the table reaches addVoxel
PushComplete(i) ==
    /\ pushes[i].st \in { "stored", "failed" }
    /\ Resume(i, pushes[i].st = "failed")

\* the insert of push i is stored and addVoxel resumes
PushSettles(i) ==
    /\ pushes[i].st = "sent"
    /\ Resume(i, FALSE)

\* another actor inserts a row; subscribers are notified
RemoteActorInsert(p) ==
    /\ Len(db) < MaxRows
    /\ LET row == StoredRow(p, db)
       IN /\ channel = "subscribed" =>
                (row \in notifs \/ Cardinality(notifs) < MaxNotifs)
          /\ db' = Append(db, row)
          /\ notifs' = IF channel = "subscribed" THEN notifs \cup { row } ELSE notifs
    /\ UNCHANGED << storeVars, fetch, pushes, channel, log, viewVars >>

\* the realtime callback: (payload) => { ... } with payload.new = nv
RealtimeInsert(nv) ==
    /\ Len(Dispatch(channel, voxels, nv)) <= MaxVoxels
    /\ voxels' = Dispatch(channel, voxels, nv)
    /\ UNCHANGED << selectedColor, fetch, pushes, db, channel, log, viewVars >>

\* an INSERT notification in flight reaches the client
Deliver(n) ==
    /\ n \in notifs
    /\ RealtimeInsert(n)
    /\ notifs' = notifs \ { n }

\* the client is notified of a row some actor inserted
RemoteInsert(row) ==
    /\ RealtimeInsert(row)
    /\ UNCHANGED notifs

\* the handle returned by subscribeToVoxels: () => supabase.removeChannel(channel)
Teardown ==
    /\ channel \in { "subscribed", "removed" }
    /\ channel' = "removed"
    /\ UNCHANGED << storeVars, fetch, pushes, db, notifs, log, viewVars >>

\* the callback of useFrame in Interaction, for intersects[0] = h
FrameOn(h) ==
    /\ hit' = h
    /\ ghost' = IF h.object = "none" THEN NoGhost ELSE TargetCell(h.point, h.normal)
    /\ isHoveringVoxel' = (h.object = "voxels")
    /\ hoveredVoxelId' = HoveredAfter(h, rvoxels, hoveredVoxelId)
    /\ UNCHANGED << storeVars, remoteVars, log, rvoxels, inst, handler >>

\* a rendered frame: the ray is cast against the instanced mesh and the ground
Frame(h) ==
    /\ h \in Intersections(inst)
    /\ FrameOn(h)

\* React commits a render: selectors re-read the store, the projection effect
\* and the handler effect run with the values of this render
Commit ==
    /\ rvoxels' = voxels
    /\ inst' = IF rvoxels # voxels THEN Project(inst, voxels) ELSE inst
    /\ handler' = [ghost |-> ghost, isHoveringVoxel |-> isHoveringVoxel,
                   hoveredVoxelId |-> hoveredVoxelId]
    /\ << rvoxels', handler' >> # << rvoxels, handler >>
    /\ UNCHANGED << storeVars, remoteVars, log, hit, ghost, isHoveringVoxel, hoveredVoxelId >>

\* --------------------------------------------------------- specifications
\* the store with the table, the pushes and the realtime channel around it
NextStore ==
    \/ Mount
    \/ FetchRead
    \/ FetchComplete
    \/ FetchError
    \/ \E k \in 1..MaxKey : SetSelectedColor(COLORS[k])
    \/ \E c \in Cells : AddVoxelCall(c)
    \/ \E i \in 1..Len(pushes) : StoreInsert(i)
    \/ \E i \in 1..Len(pushes) : StoreReject(i)
    \/ \E i \in 1..Len(pushes) : PushComplete(i)
    \/ \E p \in RemotePayloads : RemoteActorInsert(p)
    \/ \E n \in notifs : Deliver(n)
    \/ Teardown

SpecStore == Init /\ [][NextStore]_vars

\* the mounted scene: the bulk select has been answered, the channel is open
InitView ==
    /\ voxels = << >>
    /\ selectedColor = DefaultSelectedColor
    /\ fetch \in { [st |-> "read", data |-> SelectAll(t)] : t \in InitialTables }
    /\ pushes = << >>
    /\ db = << >>
    /\ notifs = {}
    /\ channel = "subscribed"
    /\ log = {}
    /\ rvoxels = << >>
    /\ inst = [count |-> 0, matrix |-> << >>, color |-> << >>]
    /\ hit = NoHit
    /\ ghost = NoGhost
    /\ isHoveringVoxel = FALSE
    /\ hoveredVoxelId = Null
    /\ handler = [ghost |-> NoGhost, isHoveringVoxel |-> FALSE, hoveredVoxelId |-> Null]

\* the scene with the store; what the table and the channel deliver is input
NextView ==
    \/ FetchComplete
    \/ \E k \in 1..MaxKey : SetSelectedColor(COLORS[k])
    \/ \E button \in { 0, 2 }, altKey \in BOOLEAN : MouseDown(button, altKey)
    \/ \E i \in 1..Len(pushes) : PushSettles(i)
    \/ \E row \in RemoteRows : RemoteInsert(row)
    \/ \E h \in Intersections(inst) : Frame(h)
    \/ Commit

SpecView == InitView /\ [][NextView]_vars

\* the placement computation alone, over hit points and face normals
MaxCoord == 2

AxisNormals ==
    { << 1, 0, 0 >>, << -1, 0, 0 >>, << 0, 1, 0 >>, << 0, -1, 0 >>,
      << 0, 0, 1 >>, << 0, 0, -1 >> }

HitPoints == { << a, b, c >> : a, b, c \in (-MaxCoord)..MaxCoord }

RawHits ==
    { [object |-> "voxels", instanceId |-> 0, point |-> q, normal |-> n] :
        q \in HitPoints, n \in AxisNormals }

NextTarget == \E h \in RawHits : FrameOn(h)

SpecTarget == Init /\ [][NextTarget]_vars

\* ------------------------------------------------------------ properties
Pos(v) == << v.x, v.y, v.z >>

CountAt(vs, c) == Cardinality({ i \in 1..Len(vs) : Pos(vs[i]) = c })

Occupied(vs, c) == \E i \in 1..Len(vs) : Pos(vs[i]) = c

\* C1: the voxel list never holds two voxels with equal position.
Uniqueness ==
    \A i, j \in 1..Len(voxels) : i # j => Pos(voxels[i]) # Pos(voxels[j])

\* C3: a remote insert handed to the callback appends its voxel if and only
\* if no voxel of the list has its (x, y, z), and otherwise leaves the list
\* as it is; either way the position is in the list afterwards, so that the
\* same notification delivered again changes nothing.
DedupIdempotence ==
    [][\A n \in notifs :
          (channel = "subscribed" /\ Deliver(n)) =>
              /\ voxels' = IF Occupied(voxels, Pos(n)) THEN voxels
                           ELSE voxels \o << n >>
              /\ Occupied(voxels', Pos(n))]_vars

\* C3: a voxel applied from a remote insert is in the list and a second
\* notification of the same x, y, z and color is about to be delivered
DedupWitness ==
    \E n \in notifs : \E i \in 1..Len(voxels) :
        /\ Pos(voxels[i]) = Pos(n)
        /\ voxels[i].color = n.color
        /\ voxels[i].id # Undefined
        /\ voxels[i].id # n.id
        /\ channel = "subscribed"

\* C4: from the addVoxel call on, whatever the order of the push completion
\* and the echoed notification, the list holds exactly one voxel at the
\* added position.
OptimisticEchoOne ==
    \A i \in 1..Len(pushes) : CountAt(voxels, Pos(pushes[i].voxel)) = 1

\* C8: a rejected push leaves the voxel list as it is, when the table
\* rejects it and when addVoxel resumes, and the error is logged.
PushFailureKept ==
    [][\A i \in 1..Len(pushes) :
          /\ StoreReject(i) => voxels' = voxels
          /\ (pushes[i].st = "failed" /\ PushComplete(i)) =>
                 /\ voxels' = voxels
                 /\ "Error saving voxel:" \in log']_vars

\* C8: the error is logged, no push is left, and a voxel that was added
\* locally and never reached the table is still in the list
PushFailureWitness ==
    /\ "Error saving voxel:" \in log
    /\ pushes = << >>
    /\ \E j \in 1..Len(voxels) :
          /\ voxels[j].id = Undefined
          /\ \A r \in 1..Len(db) : Pos(db[r]) # Pos(voxels[j])

\* C9: a failed bulk fetch is logged and leaves the voxel list as it is;
\* after it local adds still append and remote inserts are still applied.
LoadFailureNonFatal ==
    [][/\ FetchError =>
             /\ voxels' = voxels
             /\ "Error fetching voxels:" \in log'
       /\ fetch.st = "failed" =>
             /\ \A c \in Cells :
                   AddVoxelCall(c) =>
                       voxels' = voxels \o << NewVoxel(c[1], c[2], c[3], selectedColor) >>
             /\ \A n \in notifs :
                   (channel = "subscribed" /\ Deliver(n) /\ ~Occupied(voxels, Pos(n))) =>
                       voxels' = voxels \o << n >>]_vars

\* C9: the fetch has failed and the list holds a locally added voxel and a
\* voxel of a remote insert
LoadFailureWitness ==
    /\ fetch.st = "failed"
    /\ "Error fetching voxels:" \in log
    /\ \E j \in 1..Len(voxels) : voxels[j].id = Undefined
    /\ \E j \in 1..Len(voxels) : voxels[j].id # Undefined

TableOf(n) == [i \in 1..n |-> NewVoxel(i, 0, 0, "#ccff00")]

\* C11: the projected instance count never exceeds MAX_INSTANCES: the
\* projection of a list of MAX_INSTANCES + 1 voxels onto the mesh does not
\* expose more than MAX_INSTANCES instances.
CapacityRespected ==
    Project(inst, TableOf(MAX_INSTANCES + 1)).count <= MAX_INSTANCES

\* what the registered handler does with a primary press, modifier held
RemovePress ==
    HandleMouseDown(handler, [button |-> 0, altKey |-> TRUE], Current)

\* what the registered handler does with a primary press, no modifier
AddPress ==
    HandleMouseDown(handler, [button |-> 0, altKey |-> FALSE], Current)

\* the last frame hit instance i of the current projection of the current
\* voxel list, and the registered handler has seen that frame
HoveringInstance(i) ==
    /\ rvoxels = voxels
    /\ hit \in VoxelHits(inst)
    /\ hit.instanceId = i
    /\ isHoveringVoxel
    /\ hoveredVoxelId = rvoxels[i + 1].id
    /\ handler = [ghost |-> ghost, isHoveringVoxel |-> isHoveringVoxel,
                  hoveredVoxelId |-> hoveredVoxelId]

\* the last voxel of the list was added by addVoxel at a free position, its
\* push is still in flight, and it is the hovered voxel
HoveringAdded ==
    /\ Len(voxels) > 0
    /\ Len(pushes) > 0
    /\ pushes[Len(pushes)].voxel = voxels[Len(voxels)]
    /\ CountAt(voxels, Pos(voxels[Len(voxels)])) = 1
    /\ HoveringInstance(Len(voxels) - 1)

\* C2: removing the voxel that was added brings the count back to what it
\* was before the add: a Remove intent on a hovered voxel takes one voxel
\* out of the list.
AddRemoveRoundTrip ==
    HoveringAdded => Len(RemovePress.voxels) = Len(voxels) - 1

\* the color a voxel names, as r, g, b; none when the voxel names no color
ColorOfVoxel(v) == IF Falsy(v.color) THEN << >> ELSE ColorSet(v.color)

EndToEnd ==
    /\ (voxels = << >> /\ handler.ghost = << 2, 3, -1 >>) =>
           /\ Len(AddPress.voxels) = 1
           /\ Pos(AddPress.voxels[1]) = << 2, 3, -1 >>
    /\ (Len(voxels) = 1 /\ rvoxels = voxels /\ Pos(voxels[1]) = << 2, 3, -1 >>) =>
           /\ inst.count = 1
           /\ inst.matrix[1] = << 2, 3, -1 >>
    /\ (Len(voxels) = 1 /\ Pos(voxels[1]) = << 2, 3, -1 >>
          /\ voxels[1].id = Undefined /\ HoveringInstance(0)) =>
           /\ RemovePress.voxels = << >>
           /\ Project(inst, RemovePress.voxels).count = 0

\* the half-unit sum of the hit point and half the normal, per axis
Offset(h, k) == h.point[k] + h.normal[k]

\* each axis of the target cell is an integer nearest to the offset point
NearestInteger ==
    hit # NoHit =>
        \A k \in 1..3 : 2 * ghost[k] - Offset(hit, k) \in { -1, 0, 1 }

Presses == [button : { 0, 2 }, altKey : BOOLEAN]

\* C12: a press after a frame that produced no placement candidate changes
\* nothing, with or without the modifier: no voxel is added or removed and
\* nothing is raised or logged.
NoCandidateNoEffect ==
    hit = NoHit =>
        \A e \in Presses : HandleMouseDown(handler, e, Current) = Current

\* the last frame hovers no voxel with an identity: it hit the ground, or a
\* voxel whose id is undefined
NothingHovered ==
    \/ hit.object = "ground"
    \/ /\ hit.object = "voxels"
       /\ hit.instanceId + 1 <= Len(rvoxels)
       /\ Falsy(rvoxels[hit.instanceId + 1].id)

\* C13: a primary press with the modifier never adds a voxel, and when no
\* voxel is hovered it leaves the list as it is and raises nothing; a
\* primary press without the modifier never removes a voxel.
ModifierSeparation ==
    /\ Len(RemovePress.voxels) <= Len(voxels)
    /\ NothingHovered => RemovePress = Current
    /\ Len(AddPress.voxels) >= Len(voxels)

\* C14: after a frame in which the ray hits nothing, the placement
\* candidate is cleared and no hovered identity is held.
NoHitClearsHover ==
    hit = NoHit => (ghost = NoGhost /\ Falsy(hoveredVoxelId))

\* C15: whenever the last frame's nearest hit is voxel instance i and a
\* Remove intent would call removeVoxel, the identity it passes is the id
\* of the voxel at index i of the list that was last projected.
HoverLookupFresh ==
    (hit.object = "voxels" /\ RemovePress # Current) =>
        /\ hit.instanceId + 1 <= Len(rvoxels)
        /\ handler.hoveredVoxelId = rvoxels[hit.instanceId + 1].id

\* the cell next to the face of the projected instance the last frame hit
AdjacentCell ==
    [k \in 1..3 |-> inst.matrix[hit.instanceId + 1][k] + hit.normal[k]]

\* C16: for a hit anywhere on a face of a projected voxel, corners
\* included, the target cell is the voxel's cell plus the face normal, and
\* that cell holds no voxel.
FaceAdjacency ==
    (hit.object = "voxels" /\ hit \in VoxelHits(inst)) =>
        /\ ghost = AdjacentCell
        /\ ~Occupied(rvoxels, ghost)

\* C17: a voxel appended by a press has the position of the target cell
\* the last frame computed and the color selected at the press.
AddUsesLastFrame ==
    (AddPress # Current /\ ghost # NoGhost) =>
        LET v == AddPress.voxels[Len(AddPress.voxels)]
        IN Pos(v) = ghost /\ v.color = selectedColor

\* vs is the beginning of ws
IsPrefix(vs, ws) ==
    /\ Len(vs) <= Len(ws)
    /\ \A i \in 1..Len(vs) : ws[i] = vs[i]

\* C18: addVoxel and an applied remote insert put at most one voxel at the
\* end of the list and leave every voxel at its index with its position and
\* color; setSelectedColor leaves the list as it is.
StableOrder ==
    [][/\ \A c \in Cells :
             AddVoxelCall(c) =>
                 /\ IsPrefix(voxels, voxels')
                 /\ Len(voxels') = Len(voxels) + 1
       /\ \A n \in notifs :
             Deliver(n) =>
                 /\ IsPrefix(voxels, voxels')
                 /\ Len(voxels') <= Len(voxels) + 1
       /\ \A k \in 1..MaxKey :
             SetSelectedColor(COLORS[k]) => voxels' = voxels]_vars

\* C18: the list holds a remote voxel and then a locally added voxel of a
\* color selected after the store was created
StableOrderWitness ==
    /\ Len(voxels) = 2
    /\ voxels[1].id # Undefined
    /\ voxels[2].id = Undefined
    /\ voxels[2].color = selectedColor
    /\ selectedColor # DefaultSelectedColor

\* C19: every voxel that is in the list when the bulk fetch completes,
\* appended while initializeVoxels was awaiting it, has its position in
\* the list afterwards.
NoLostUpdate ==
    [][FetchComplete =>
          \A i \in 1..Len(voxels) : Occupied(voxels', Pos(voxels[i]))]_vars

====
